---- MODULE Spec2Model ----
(***************************************************************************)
(* Two Flask teaching services of the GA-Practice repository.              *)
(*                                                                         *)
(*   spam service: lessons/optional/deploying-models-flask/hello.py        *)
(*   bank service: lessons/required/logistic-regression/practice/app.py    *)
(*                                                                         *)
(* Each script is one process.  A behaviour of this module is the life of  *)
(* one such process: `service` says which script runs, `pc` is the module  *)
(* level statement the interpreter is at, and once the script has reached  *)
(* app.run the handlers answer requests.                                   *)
(*                                                                         *)
(* Abstractions of the libraries the scripts call:                         *)
(*  - a text is a sequence of words; tokenising lower-cases every word and *)
(*    drops the English stop words (TfidfVectorizer's defaults);           *)
(*  - the tf-idf weight of a term is abstracted to its term count, and the *)
(*    naive Bayes decision is taken by exact integer cross-multiplication  *)
(*    of the smoothed likelihoods instead of floating-point logarithms;    *)
(*  - a row of bank.csv is abstracted to its label y, rows with the same   *)
(*    label are interchangeable, and the logistic regression's predictions *)
(*    are arbitrary label vectors;                                         *)
(*  - accuracy_score's float is kept as the exact fraction num/den.        *)
(***************************************************************************)
EXTENDS Integers, Sequences, FiniteSets

VARIABLES service, pc, df, df_html, y, cvec, X, clf,
          y_train, y_test, preds, score,
          resp, predictions, tables

vars == <<service, pc, df, df_html, y, cvec, X, clf,
          y_train, y_test, preds, score,
          resp, predictions, tables>>

\* The module-level objects of the spam script (hello.py lines 9-19); y and
\* clf are also names of the bank script.
spam_globals == <<df, df_html, cvec, X>>

\* The module-level objects of the bank script (app.py lines 12-28).  Of
\* the bank DataFrame only the label column y is kept, as the number of
\* rows of each label.
bank_globals == <<y_train, y_test, preds, score>>

\* Everything a script builds before it serves.
globals == <<df, df_html, y, cvec, X, clf, y_train, y_test, preds, score>>

\* What clients have observed so far (history of the responses sent).
observed == <<resp, predictions, tables>>

-----------------------------------------------------------------------------
(* Bounds of the model.                                                    *)

\* Most rows a SMSSpamCollection.txt file holds.
MaxSpamRows == 2

\* Most rows a bank.csv file holds.
MaxBankRows == 25

-----------------------------------------------------------------------------
(* Program constants.                                                      *)

\* TfidfVectorizer(stop_words='english', max_features = 300)
max_features == 300

\* cross_val_predict(clf, X_test, y_test, cv = 5)
cv == 5

-----------------------------------------------------------------------------
(* Input universes.                                                        *)

\* The words of sklearn's English stop word list among the words used below.
StopWords == {"the"}

SpamLabels == {"ham", "spam"}

\* np.unique order of the labels (classes_ is sorted).
LabelOrder == <<"ham", "spam">>

BankLabels == {"no", "yes"}

\* The rows a SMSSpamCollection.txt file is made of.
SpamRows ==
    { [target |-> "spam", msg |-> <<"FREE", "free">>],
      [target |-> "ham",  msg |-> <<"hi", "the">>],
      [target |-> "ham",  msg |-> <<"the">>] }

\* The message texts clients send in ?msg=.
Texts == { <<>>, <<"FREE">>, <<"hi", "the">> }

\* The path segments clients send after /greet/.
Names == {"Jacob", "a<b"}

Methods == {"GET", "HEAD", "OPTIONS", "POST"}

-----------------------------------------------------------------------------
(* Arithmetic helpers.                                                     *)

RECURSIVE Pow(_, _)
Pow(b, e) == IF e = 0 THEN 1 ELSE b * Pow(b, e - 1)

\* The sum of f[x] over the finite set S.
RECURSIVE SumOver(_, _)
SumOver(S, f) ==
    IF S = {} THEN 0
    ELSE LET x == CHOOSE e \in S : TRUE
         IN  f[x] + SumOver(S \ {x}, f)

\* The product of f[x] over the finite set S.
RECURSIVE ProdOver(_, _)
ProdOver(S, f) ==
    IF S = {} THEN 1
    ELSE LET x == CHOOSE e \in S : TRUE
         IN  f[x] * ProdOver(S \ {x}, f)

-----------------------------------------------------------------------------
(* TfidfVectorizer (hello.py lines 16-17 and 28).                          *)

\* lowercase=True: str.lower on a word.
Lower(w) == IF w = "FREE" THEN "free" ELSE w

NotStopWord(w) == w \notin StopWords

\* The analyzer: lower-case, then drop the stop words.
analyze(text) ==
    SelectSeq([i \in 1..Len(text) |-> Lower(text[i])], NotStopWord)

\* Occurrences of term w in a token sequence.
Count(w, toks) == Cardinality({i \in 1..Len(toks) : toks[i] = w})

\* Document frequency summed over the corpus, used to rank the terms.
TermFreq(w, docs) ==
    SumOver(1..Len(docs), [i \in 1..Len(docs) |-> Count(w, analyze(docs[i]))])

\* All terms of the corpus.
Terms(docs) ==
    UNION { {analyze(docs[i])[j] : j \in 1..Len(analyze(docs[i]))} :
            i \in 1..Len(docs) }

\* cvec.fit: the vocabulary is the max_features most frequent terms.
fit_vocabulary(docs) ==
    LET terms == Terms(docs)
    IN  IF Cardinality(terms) <= max_features THEN terms
        ELSE CHOOSE S \in SUBSET terms :
                 /\ Cardinality(S) = max_features
                 /\ \A s \in S, t \in terms \ S :
                        TermFreq(s, docs) >= TermFreq(t, docs)

\* cvec.transform: one feature vector per document, over the fitted vocabulary.
transform(vec, docs) ==
    [i \in 1..Len(docs) |->
        [w \in vec.vocabulary_ |-> Count(w, analyze(docs[i]))]]

-----------------------------------------------------------------------------
(* MultinomialNB (hello.py lines 18-19 and 29).                            *)

\* The labels of the label vector ys in classes_ order.
IsClass(ys, c) == \E i \in 1..Len(ys) : ys[i] = c

classes_of(ys) ==
    LET Present(c) == IsClass(ys, c)
    IN  SelectSeq(LabelOrder, Present)

\* clf.fit(X, y): per-class row counts and per-class feature totals.
nb_fit(Xm, ys, vocab) ==
    [classes_ |-> classes_of(ys),
     class_count_ |->
        [c \in SpamLabels |-> Cardinality({i \in 1..Len(ys) : ys[i] = c})],
     feature_count_ |->
        [c \in SpamLabels |->
            [w \in vocab |->
                SumOver({i \in 1..Len(ys) : ys[i] = c},
                        [i \in 1..Len(ys) |-> Xm[i][w]])]]]

\* Numerator of the joint likelihood of class c for vector x (alpha = 1).
LikNum(m, c, x) ==
    m.class_count_[c] *
    ProdOver(DOMAIN x,
             [w \in DOMAIN x |-> Pow(m.feature_count_[c][w] + 1, x[w])])

\* Its denominator.
LikDen(m, c, x) ==
    Pow(SumOver(DOMAIN x, m.feature_count_[c]) + Cardinality(DOMAIN x),
        SumOver(DOMAIN x, x))

\* c is at least as likely as d.
AtLeast(m, c, d, x) ==
    LikNum(m, c, x) * LikDen(m, d, x) >= LikNum(m, d, x) * LikDen(m, c, x)

\* np.argmax: the first class of classes_ that no other class beats.
nb_argmax(m, x) ==
    LET n == Len(m.classes_)
        Best(i) == \A j \in 1..n : AtLeast(m, m.classes_[i], m.classes_[j], x)
        first == CHOOSE i \in 1..n :
                     Best(i) /\ \A j \in 1..(i - 1) : ~Best(j)
    IN  m.classes_[first]

\* clf.predict(X_new): one label per row of X_new.
predict(m, Xn) == [i \in 1..Len(Xn) |-> nb_argmax(m, Xn[i])]

-----------------------------------------------------------------------------
(* DataFrame.to_html and the templates.                                    *)

\* df.to_html(): the table markup, one <tr> per row, as a token sequence.
RECURSIVE html_rows(_)
html_rows(d) ==
    IF d = <<>> THEN <<>>
    ELSE <<"<tr>", Head(d).target>> \o Head(d).msg \o <<"</tr>">>
         \o html_rows(Tail(d))

to_html(d) == <<"<table>">> \o html_rows(d) \o <<"</table>">>

\* The characters of a captured path segment.
Chars(name) ==
    IF name = "Jacob" THEN <<"J", "a", "c", "o", "b">>
    ELSE IF name = "a<b" THEN <<"a", "<", "b">>
    ELSE <<>>

\* The template engine's output escaping of one character.
EscapeChar(c) ==
    IF c = "&" THEN <<"&", "a", "m", "p", ";">>
    ELSE IF c = "<" THEN <<"&", "l", "t", ";">>
    ELSE IF c = ">" THEN <<"&", "g", "t", ";">>
    ELSE <<c>>

RECURSIVE Escape(_)
Escape(cs) ==
    IF cs = <<>> THEN <<>> ELSE EscapeChar(Head(cs)) \o Escape(Tail(cs))

\* The markup templates/index.html puts around the escaped name.
IndexPre == <<"<", "p", ">">>
IndexPost == <<"<", "/", "p", ">">>

\* The page a template produces from its context.
TemplateHtml(template, context) ==
    IF template = "index.html"
    THEN IndexPre \o Escape(Chars(context.name)) \o IndexPost
    ELSE IF template = "table.html"
    THEN <<"<html>">> \o context.table \o <<"</html>">>
    ELSE <<"<html>", context.a, "</html>">>

\* flask.render_template(template, **context)
render_template(template, context) ==
    [template |-> template, context |-> context,
     html |-> TemplateHtml(template, context)]

\* s occurs in t as a contiguous subsequence.
IsSubstring(s, t) ==
    \E k \in 0..(Len(t) - Len(s)) :
        \A i \in 1..Len(s) : t[k + i] = s[i]

-----------------------------------------------------------------------------
(* sklearn.metrics.accuracy_score (app.py line 28).                        *)

\* Number of positions where the two vectors agree.
RECURSIVE Matches(_, _)
Matches(a, b) ==
    IF a = <<>> \/ b = <<>> THEN 0
    ELSE (IF Head(a) = Head(b) THEN 1 ELSE 0) + Matches(Tail(a), Tail(b))

\* Mutant of accuracy_score: normalize=False, the number of matches.
accuracy_score_count(y_true, y_pred) ==
    [num |-> Matches(y_true, y_pred), den |-> 1]

\* accuracy_score(y_true, y_pred): the matching fraction num/den.
accuracy_score(y_true, y_pred) ==
    [num |-> Matches(y_true, y_pred), den |-> Len(y_true)]

\* The held-out labels in row order: the "no" rows, then the "yes" rows.
LabelSeq(nNo, nYes) ==
    [i \in 1..(nNo + nYes) |-> IF i <= nNo THEN "no" ELSE "yes"]

\* Rows of label c in a label vector.
Members(v, c) == Cardinality({i \in 1..Len(v) : v[i] = c})

\* StratifiedKFold(cv) can split v and every training fold keeps both classes.
CanCrossValidate(v) ==
    /\ Len(v) >= cv
    /\ \E c \in BankLabels : Members(v, c) >= cv
    /\ \A c \in BankLabels : Members(v, c) >= 2

-----------------------------------------------------------------------------
(* Requests and the URL map (the app.route declarations).                  *)

SpamPaths ==
    { <<>>, <<"table">>, <<"is_spam">>, <<"nope">>, <<"greet", "Jacob", "a<b">> }
    \cup { <<"greet", n>> : n \in Names }

BankPaths == { <<>>, <<"table">> }

\* Query strings: none, ?msg=<text>, or a key other than msg.
QueryArgs ==
    { <<>>, << <<"text", <<"FREE">> >> >> }
    \cup { << <<"msg", t>> >> : t \in Texts }

\* The requests clients send; only /is_spam is sent a query string.
RequestsTo(paths) ==
    { r \in [method : Methods, path : paths, args : QueryArgs] :
        r.args # <<>> => r.path = <<"is_spam">> }

SpamRequests == RequestsTo(SpamPaths)

BankRequests == RequestsTo(BankPaths)

Requests(svc) == IF svc = "spam" THEN SpamRequests ELSE BankRequests

\* flask.request.args: key in args
HasArg(args, key) == \E i \in 1..Len(args) : args[i][1] = key

\* flask.request.args[key]: the first value of the key.
GetArg(args, key) ==
    LET i == CHOOSE k \in 1..Len(args) :
                 args[k][1] = key /\ \A j \in 1..(k - 1) : args[j][1] # key
    IN  args[i][2]

\* app.route(rule, methods): GET by default; HEAD comes with GET and
\* OPTIONS is added for the framework's automatic answer.
route(rule, methods, endpoint) ==
    [rule |-> rule,
     methods |-> methods
                 \cup (IF "GET" \in methods THEN {"HEAD"} ELSE {})
                 \cup {"OPTIONS"},
     endpoint |-> endpoint]

Static(s) == [converter |-> "static", value |-> s]
Variable(v) == [converter |-> "string", value |-> v]

\* The rules hello.py registers (lines 22, 25, 35 and 43).
spam_url_map ==
    { route(<<Static("table")>>, {"GET"}, "table"),
      route(<<Static("is_spam")>>, {"GET"}, "is_spam"),
      route(<<>>, {"GET"}, "hello"),
      route(<<Static("greet"), Variable("name")>>, {"GET"}, "greet") }

\* The rule app.py registers (line 30).
bank_url_map == { route(<<>>, {"GET"}, "hello") }

url_map(svc) == IF svc = "spam" THEN spam_url_map ELSE bank_url_map

\* Mutant of RuleMatches: the variable is a path converter, which also
\* takes the segments that follow.
RuleMatches_path(rule, path) ==
    /\ Len(rule) <= Len(path)
    /\ Len(rule) < Len(path) =>
          Len(rule) > 0 /\ rule[Len(rule)].converter = "string"
    /\ \A i \in 1..Len(rule) :
          IF rule[i].converter = "static"
          THEN path[i] = rule[i].value
          ELSE path[i] # ""

\* A rule matches a path segment by segment; a string variable takes
\* exactly one non-empty segment.
RuleMatches(rule, path) ==
    /\ Len(rule) = Len(path)
    /\ \A i \in 1..Len(rule) :
          IF rule[i].converter = "static"
          THEN path[i] = rule[i].value
          ELSE path[i] # ""

Matching(svc, path) == { r \in url_map(svc) : RuleMatches(r.rule, path) }

\* The request is dispatched to this endpoint's view function.
Dispatches(svc, req, endpoint) ==
    /\ req.method # "OPTIONS"
    /\ \E r \in Matching(svc, req.path) :
          r.endpoint = endpoint /\ req.method \in r.methods

\* The requests of a service that reach the view function of an endpoint.
Routed(svc, endpoint) ==
    { req \in Requests(svc) : Dispatches(svc, req, endpoint) }

\* The requests each view function of hello.py is called for.
TableRequests == Routed("spam", "table")
IsSpamRequests == Routed("spam", "is_spam")
HelloSpamRequests == Routed("spam", "hello")
GreetRequests == Routed("spam", "greet")

\* The requests the view function of app.py is called for.
HelloBankRequests == Routed("bank", "hello")

\* The requests whose path no rule matches.
NotFound(svc) == { req \in Requests(svc) : Matching(svc, req.path) = {} }
SpamNotFound == NotFound("spam")
BankNotFound == NotFound("bank")

\* The requests whose path is declared, with another method.
NotAllowed(svc) ==
    { req \in Requests(svc) :
        /\ Matching(svc, req.path) # {}
        /\ \A r \in Matching(svc, req.path) : req.method \notin r.methods }
SpamNotAllowed == NotAllowed("spam")
BankNotAllowed == NotAllowed("bank")

\* The OPTIONS requests to a declared path.
Options(svc) ==
    { req \in Requests(svc) :
        req.method = "OPTIONS" /\ Matching(svc, req.path) # {} }
SpamOptions == Options("spam")
BankOptions == Options("bank")

\* The response of a request no view function ran for.
Unhandled(req, status) ==
    [request |-> req, status |-> status, endpoint |-> "none", body |-> <<>>]

\* The response a view function returned.
Handled(req, endpoint, body) ==
    [request |-> req, status |-> 200, endpoint |-> endpoint, body |-> body]

\* The response to an exception a view function raised.
Raised(req, endpoint, status) ==
    [request |-> req, status |-> status, endpoint |-> endpoint, body |-> <<>>]

-----------------------------------------------------------------------------
(* Initial state: the interpreter is about to run the first statement.     *)

NoRequest == [method |-> "", path |-> <<>>, args |-> <<>>]

NoResponse == Unhandled(NoRequest, 0)

Init ==
    /\ service \in {"spam", "bank"}
    /\ pc = "read_csv"
    /\ df = <<>>
    /\ df_html = <<>>
    /\ y = IF service = "spam" THEN <<>> ELSE [no |-> 0, yes |-> 0]
    /\ cvec = [vocabulary_ |-> {}]
    /\ X = <<>>
    /\ clf = [classes_ |-> <<>>]
    /\ y_train = [no |-> 0, yes |-> 0]
    /\ y_test = <<>>
    /\ preds = <<>>
    /\ score = [num |-> 0, den |-> 0]
    /\ resp = NoResponse
    /\ predictions = [t \in Texts |-> {}]
    /\ tables = {}

\* Mutant of abort: the exception is swallowed (try/except: pass) and the
\* script goes on to app.run.
abort_swallowed ==
    /\ pc' = "run"
    /\ UNCHANGED <<service, globals, observed>>

\* An uncaught exception at module level ends the process.
abort ==
    /\ pc' = "aborted"
    /\ UNCHANGED <<service, globals, observed>>

-----------------------------------------------------------------------------
(* Startup of the spam script (hello.py lines 9-19).                       *)

\* The files pd.read_csv can parse into two columns.
SpamFiles == UNION { [1..n -> SpamRows] : n \in 1..MaxSpamRows }

\* Lines 9-12: read the file, name the columns, take y and X.  A missing
\* or empty file, or one without exactly two columns, raises.
spam_read_csv ==
    /\ service = "spam" /\ pc = "read_csv"
    /\ \/ abort
       \/ \E data \in SpamFiles :
             /\ df' = data
             /\ y' = [i \in 1..Len(data) |-> data[i].target]
             /\ X' = [i \in 1..Len(data) |-> data[i].msg]
             /\ pc' = "to_html"
             /\ UNCHANGED <<service, df_html, cvec, clf, bank_globals,
                            observed>>

\* Line 14: df_html = df.to_html()
spam_to_html ==
    /\ service = "spam" /\ pc = "to_html"
    /\ df_html' = to_html(df)
    /\ pc' = "fit_transform"
    /\ UNCHANGED <<service, df, y, cvec, X, clf, bank_globals,
                   observed>>

\* Lines 16-17: X = cvec.fit_transform(X); an empty vocabulary raises.
spam_fit_transform ==
    /\ service = "spam" /\ pc = "fit_transform"
    /\ IF fit_vocabulary(X) = {}
       THEN abort
       ELSE /\ cvec' = [vocabulary_ |-> fit_vocabulary(X)]
            /\ X' = transform(cvec', X)
            /\ pc' = "clf_fit"
            /\ UNCHANGED <<service, df, df_html, y, clf, bank_globals,
                           observed>>

\* Lines 18-19: clf = MultinomialNB(); clf.fit(X, y)
spam_clf_fit ==
    /\ service = "spam" /\ pc = "clf_fit"
    /\ clf' = nb_fit(X, y, cvec.vocabulary_)
    /\ pc' = "run"
    /\ UNCHANGED <<service, df, df_html, y, cvec, X, bank_globals,
                   observed>>

-----------------------------------------------------------------------------
(* Startup of the bank script (app.py lines 12-28).                        *)

\* The label columns of the files pd.read_csv can parse.
BankFiles ==
    { [no |-> n - k, yes |-> k] : n \in 1..MaxBankRows, k \in 0..MaxBankRows }
    \cap [no : 0..MaxBankRows, yes : 0..MaxBankRows]

\* Lines 12-18: read the file and build X and y.  A missing or empty file,
\* or one without the columns the script names, raises.
bank_read_csv ==
    /\ service = "bank" /\ pc = "read_csv"
    /\ \/ abort
       \/ \E data \in BankFiles :
             /\ y' = data
             /\ pc' = "train_test_split"
             /\ UNCHANGED <<service, spam_globals, clf, bank_globals,
                            observed>>

\* Line 24: a random quarter of the rows (rounded up) is held out; the
\* split raises when no row is left to train on.
bank_train_test_split ==
    /\ service = "bank" /\ pc = "train_test_split"
    /\ LET n == y.no + y.yes
           n_test == (n + 3) \div 4
       IN  IF n - n_test = 0
           THEN abort
           ELSE \E k \in 0..n_test :
                   /\ k <= y.yes
                   /\ n_test - k <= y.no
                   /\ y_test' = LabelSeq(n_test - k, k)
                   /\ y_train' = [no |-> y.no - (n_test - k),
                                  yes |-> y.yes - k]
                   /\ pc' = "clf_fit"
                   /\ UNCHANGED <<service, spam_globals, y, clf, preds,
                                  score, observed>>

\* Line 26: clf.fit(X_train, y_train); one class only raises.
bank_clf_fit ==
    /\ service = "bank" /\ pc = "clf_fit"
    /\ IF y_train.no = 0 \/ y_train.yes = 0
       THEN abort
       ELSE /\ clf' = [classes_ |-> <<"no", "yes">>]
            /\ pc' = "cross_val_predict"
            /\ UNCHANGED <<service, spam_globals, y, bank_globals,
                           observed>>

\* Line 27: preds = cross_val_predict(clf, X_test, y_test, cv = 5): one
\* predicted label per held-out row, or an exception when the held-out
\* rows cannot be split into folds that can be fitted.
bank_cross_val_predict ==
    /\ service = "bank" /\ pc = "cross_val_predict"
    /\ IF ~CanCrossValidate(y_test)
       THEN abort
       ELSE \E p \in [1..Len(y_test) -> BankLabels] :
               /\ preds' = p
               /\ pc' = "accuracy_score"
               /\ UNCHANGED <<service, spam_globals, y, clf, y_train,
                              y_test, score, observed>>

\* Line 28: score = accuracy_score(y_test, preds)
bank_accuracy_score ==
    /\ service = "bank" /\ pc = "accuracy_score"
    /\ score' = accuracy_score(y_test, preds)
    /\ pc' = "run"
    /\ UNCHANGED <<service, spam_globals, y, clf, y_train, y_test, preds,
                   observed>>

\* The last statement of both scripts: app.run(debug = True).  The server
\* starts to accept connections.
run ==
    /\ pc = "run"
    /\ pc' = "serving"
    /\ UNCHANGED <<service, globals, observed>>

-----------------------------------------------------------------------------
(* Serving.  Exactly one of the actions below answers a request.  A view   *)
(* function's response carries the value the function returned.            *)

\* The statuses the framework answers a KeyError on request.args with:
\* 400, or 500 when debug mode lets the exception through.
KeyErrorStatuses == {400, 500}

\* flask.jsonify(results)
jsonify(results) == [mimetype |-> "application/json", json |-> results]

\* Mutant of table: the view pages through the dataset, dropping the rows
\* it has shown from the module-level df and df_html.
table_paging ==
    /\ service = "spam" /\ pc = "serving"
    /\ \E req \in TableRequests :
          /\ resp' = Handled(req, "table",
                             render_template("table.html", [table |-> df_html]))
          /\ tables' = tables \cup {resp'.body}
          /\ df' = IF df = <<>> THEN df ELSE Tail(df)
          /\ df_html' = to_html(df')
          /\ UNCHANGED <<service, pc, y, cvec, X, clf, bank_globals,
                         predictions>>

\* hello.py lines 22-24: the table view.
table ==
    /\ service = "spam" /\ pc = "serving"
    /\ \E req \in TableRequests :
          /\ resp' = Handled(req, "table",
                             render_template("table.html", [table |-> df_html]))
          /\ tables' = tables \cup {resp'.body}
          /\ UNCHANGED <<service, pc, globals, predictions>>

\* Mutant of is_spam: the view also trains the classifier on the message,
\* clf.partial_fit(X_new, score).
is_spam_partial_fit ==
    /\ service = "spam" /\ pc = "serving"
    /\ \E req \in IsSpamRequests :
          IF ~HasArg(req.args, "msg")
          THEN /\ \E status \in KeyErrorStatuses :
                     resp' = Raised(req, "is_spam", status)
               /\ UNCHANGED <<service, pc, globals, predictions, tables>>
          ELSE LET msg == <<GetArg(req.args, "msg")>>
                   X_new == transform(cvec, msg)
                   scored == predict(clf, X_new)
                   results == [prediction |-> scored[1]]
               IN  /\ resp' = Handled(req, "is_spam", jsonify(results))
                   /\ predictions' =
                         [predictions EXCEPT ![msg[1]] = @ \cup {scored[1]}]
                   /\ clf' = [clf EXCEPT
                                !.class_count_[scored[1]] = @ + 1,
                                !.feature_count_[scored[1]] =
                                    [w \in DOMAIN @ |-> @[w] + X_new[1][w]]]
                   /\ UNCHANGED <<service, pc, df, df_html, y, cvec, X,
                                  bank_globals, tables>>

\* Mutant of is_spam: a missing msg defaults to the empty text,
\* request.args.get('msg', '').
is_spam_default_msg ==
    /\ service = "spam" /\ pc = "serving"
    /\ \E req \in IsSpamRequests :
          LET msg == <<IF HasArg(req.args, "msg")
                       THEN GetArg(req.args, "msg") ELSE <<>> >>
              X_new == transform(cvec, msg)
              scored == predict(clf, X_new)
              results == [prediction |-> scored[1]]
          IN  /\ resp' = Handled(req, "is_spam", jsonify(results))
              /\ predictions' =
                    [predictions EXCEPT ![msg[1]] = @ \cup {scored[1]}]
              /\ UNCHANGED <<service, pc, globals, tables>>

\* Mutant of is_spam: the view classifies the training matrix X instead
\* of X_new.
is_spam_train_matrix ==
    /\ service = "spam" /\ pc = "serving"
    /\ \E req \in IsSpamRequests :
          IF ~HasArg(req.args, "msg")
          THEN /\ \E status \in KeyErrorStatuses :
                     resp' = Raised(req, "is_spam", status)
               /\ UNCHANGED <<service, pc, globals, predictions, tables>>
          ELSE LET msg == <<GetArg(req.args, "msg")>>
                   scored == predict(clf, X)
                   results == [prediction |-> scored[1]]
               IN  /\ resp' = Handled(req, "is_spam", jsonify(results))
                   /\ predictions' =
                         [predictions EXCEPT ![msg[1]] = @ \cup {scored[1]}]
                   /\ UNCHANGED <<service, pc, globals, tables>>

\* hello.py lines 25-31: the is_spam view.  A request without msg raises
\* KeyError at line 27; otherwise the text is wrapped in a one-element
\* Series, transformed, classified and the first label is returned as JSON.
is_spam ==
    /\ service = "spam" /\ pc = "serving"
    /\ \E req \in IsSpamRequests :
          IF ~HasArg(req.args, "msg")
          THEN /\ \E status \in KeyErrorStatuses :
                     resp' = Raised(req, "is_spam", status)
               /\ UNCHANGED <<service, pc, globals, predictions, tables>>
          ELSE LET msg == <<GetArg(req.args, "msg")>>
                   X_new == transform(cvec, msg)
                   scored == predict(clf, X_new)
                   results == [prediction |-> scored[1]]
               IN  /\ resp' = Handled(req, "is_spam", jsonify(results))
                   /\ predictions' =
                         [predictions EXCEPT ![msg[1]] = @ \cup {scored[1]}]
                   /\ UNCHANGED <<service, pc, globals, tables>>

\* hello.py lines 35-41: the static greeting.
hello_spam ==
    /\ service = "spam" /\ pc = "serving"
    /\ \E req \in HelloSpamRequests :
          /\ resp' = Handled(req, "hello", "<body><h2> Hello World! </h2></body>")
          /\ UNCHANGED <<service, pc, globals, predictions, tables>>

\* Mutant of greet: the commented-out module-level name = 'Jacob' of line
\* 42 is rendered instead of the captured segment.
greet_constant ==
    /\ service = "spam" /\ pc = "serving"
    /\ \E req \in GreetRequests :
          /\ resp' = Handled(req, "greet",
                             render_template("index.html", [name |-> "Jacob"]))
          /\ UNCHANGED <<service, pc, globals, predictions, tables>>

\* hello.py lines 43-45: the greet view.
greet ==
    /\ service = "spam" /\ pc = "serving"
    /\ \E req \in GreetRequests :
          /\ LET name == req.path[2]
             IN  resp' = Handled(req, "greet",
                                 render_template("index.html", [name |-> name]))
          /\ UNCHANGED <<service, pc, globals, predictions, tables>>

\* Mutant of hello: the report view refits the model on every request,
\* sending the process back to line 26.
hello_bank_refit ==
    /\ service = "bank" /\ pc = "serving"
    /\ \E req \in HelloBankRequests :
          /\ resp' = Handled(req, "hello",
                             render_template("report.html", [a |-> score]))
          /\ pc' = "clf_fit"
          /\ UNCHANGED <<service, globals, predictions, tables>>

\* Mutant of hello: the report view runs lines 27-28 again and stores the
\* new score.
hello_bank_rescoring ==
    /\ service = "bank" /\ pc = "serving"
    /\ \E req \in HelloBankRequests :
          \E p \in [1..Len(y_test) -> BankLabels] :
             /\ preds' = p
             /\ score' = accuracy_score(y_test, p)
             /\ resp' = Handled(req, "hello",
                                render_template("report.html", [a |-> score']))
             /\ UNCHANGED <<service, pc, spam_globals, y, clf, y_train,
                            y_test, predictions, tables>>

\* app.py lines 30-32: the report view.
hello_bank ==
    /\ service = "bank" /\ pc = "serving"
    /\ \E req \in HelloBankRequests :
          /\ resp' = Handled(req, "hello",
                             render_template("report.html", [a |-> score]))
          /\ UNCHANGED <<service, pc, globals, predictions, tables>>

\* No rule matches the path: 404 Not Found.
not_found ==
    /\ pc = "serving"
    /\ \E req \in (IF service = "spam" THEN SpamNotFound ELSE BankNotFound) :
          /\ resp' = Unhandled(req, 404)
          /\ UNCHANGED <<service, pc, globals, predictions, tables>>

\* A rule matches the path, none with the method: 405 Method Not Allowed.
method_not_allowed ==
    /\ pc = "serving"
    /\ \E req \in (IF service = "spam" THEN SpamNotAllowed
                   ELSE BankNotAllowed) :
          /\ resp' = Unhandled(req, 405)
          /\ UNCHANGED <<service, pc, globals, predictions, tables>>

\* OPTIONS on a declared path: the framework answers by itself.
automatic_options ==
    /\ pc = "serving"
    /\ \E req \in (IF service = "spam" THEN SpamOptions ELSE BankOptions) :
          /\ resp' = Unhandled(req, 200)
          /\ UNCHANGED <<service, pc, globals, predictions, tables>>

-----------------------------------------------------------------------------

Next ==
    \/ spam_read_csv
    \/ spam_to_html
    \/ spam_fit_transform
    \/ spam_clf_fit
    \/ bank_read_csv
    \/ bank_train_test_split
    \/ bank_clf_fit
    \/ bank_cross_val_predict
    \/ bank_accuracy_score
    \/ run
    \/ table
    \/ is_spam
    \/ hello_spam
    \/ greet
    \/ hello_bank
    \/ not_found
    \/ method_not_allowed
    \/ automatic_options

Spec == Init /\ [][Next]_vars

-----------------------------------------------------------------------------
(* Vocabulary of the properties.                                           *)

\* The state of the process: Initializing until app.run, then Serving; an
\* aborted process has exited.
Phase ==
    IF pc = "serving" THEN "Serving"
    ELSE IF pc = "aborted" THEN "Exited"
    ELSE "Initializing"

\* The last request was answered by the view function of this endpoint.
Answered(endpoint) == resp.endpoint = endpoint /\ resp.status = 200

\* This step sent a response.
Responds == resp' # resp

\* Every module-level statement of the running script has completed.
StartupComplete ==
    IF service = "spam"
    THEN /\ df \in SpamFiles
         /\ df_html = to_html(df)
         /\ cvec.vocabulary_ # {}
         /\ cvec.vocabulary_ = fit_vocabulary([i \in 1..Len(df) |-> df[i].msg])
         /\ DOMAIN X = 1..Len(df)
         /\ clf.classes_ # <<>>
    ELSE /\ y \in BankFiles
         /\ Len(y_test) + y_train.no + y_train.yes = y.no + y.yes
         /\ clf.classes_ = <<"no", "yes">>
         /\ Len(preds) = Len(y_test)
         /\ score.den = Len(y_test)

\* The paths the scripts declare, as the specification lists them.
Declared(path) ==
    IF service = "spam"
    THEN \/ path \in { <<>>, <<"table">>, <<"is_spam">> }
         \/ Len(path) = 2 /\ path[1] = "greet" /\ path[2] # ""
    ELSE path = <<>>

\* The view function the specification gives a declared path.
ViewOf(path) ==
    IF path = <<"table">> THEN "table"
    ELSE IF path = <<"is_spam">> THEN "is_spam"
    ELSE IF path = <<>> THEN "hello"
    ELSE "greet"

-----------------------------------------------------------------------------
(* The claims.                                                             *)

\* C1: for the fitted transformer and classifier, all the requests
\* GET /is_spam with the same msg text were answered with the same label,
\* whatever other requests were handled before or between them: no text
\* has been given two different labels, and the label just returned is the
\* one on record for its text.
C1_Deterministic ==
    /\ \A t \in Texts : Cardinality(predictions[t]) <= 1
    /\ Answered("is_spam") =>
          predictions[GetArg(resp.request.args, "msg")]
              = {resp.body.json.prediction}

\* C1 witness: a text has been answered after /table was served and after
\* another text got the other label.
C1_Witness ==
    /\ Answered("is_spam")
    /\ tables # {}
    /\ \E t \in Texts :
          /\ t # GetArg(resp.request.args, "msg")
          /\ predictions[t] # {}
          /\ predictions[t] # predictions[GetArg(resp.request.args, "msg")]

\* C2: every /table response of one process has the same body, rendered
\* from the string df_html computed once at startup from the dataset.
C2_TableCached ==
    /\ Cardinality(tables) <= 1
    /\ \A b \in tables :
          /\ b.template = "table.html"
          /\ b.context.table = df_html
          /\ df_html = to_html(df)

\* C2 witness: /table has just been served, after a prediction.
C2_Witness ==
    /\ Answered("table")
    /\ resp.body \in tables
    /\ \E t \in Texts : predictions[t] # {}

\* The step answers a request to /is_spam that carries no msg parameter.
MissingMsgStep ==
    /\ Responds
    /\ resp'.request \in IsSpamRequests
    /\ ~HasArg(resp'.request.args, "msg")

\* C3: a request GET /is_spam without msg gets an error response with a
\* non-2xx status and no prediction; the process stays Serving with the
\* model, the transformer and the cached table unchanged, and every view
\* function can still be called afterwards.
C3_MissingMsg ==
    [][MissingMsgStep =>
          /\ resp'.status \notin 200..299
          /\ resp'.endpoint = "is_spam"
          /\ predictions' = predictions
          /\ pc = "serving" /\ pc' = "serving"
          /\ UNCHANGED globals
          /\ ENABLED table /\ ENABLED is_spam /\ ENABLED hello_spam
          /\ ENABLED greet]_vars

\* C3 witness: the error response to a request without msg, in a process
\* that has answered a prediction before.
C3_Witness ==
    /\ resp.request \in IsSpamRequests
    /\ ~HasArg(resp.request.args, "msg")
    /\ resp.status \in KeyErrorStatuses
    /\ pc = "serving"
    /\ \E t \in Texts : predictions[t] # {}

\* C4: a process whose load or fit failed has exited without answering
\* any request, and whoever answers a request is a Serving process whose
\* load and fit completed (both services).
C4_StartupFatal ==
    /\ pc = "aborted" => resp = NoResponse /\ ~StartupComplete
    /\ pc = "serving" => StartupComplete
    /\ resp # NoResponse => pc = "serving"

\* C4 witness: the spam process exited because the file gave an empty
\* vocabulary, after the file itself had been read.
C4_Witness ==
    /\ pc = "aborted"
    /\ service = "spam"
    /\ df # <<>>

\* C5: a live process is Initializing or Serving; the only change of state
\* is Initializing -> Serving, taken by app.run once the data is loaded
\* and the model fitted; responses are sent in Serving only; a Serving
\* process stays Serving, and an exited one stays exited.
C5_TwoStates ==
    [][/\ Phase \in {"Initializing", "Serving", "Exited"}
       /\ Phase = "Serving" => Phase' = "Serving"
       /\ Phase = "Exited" => Phase' = "Exited"
       /\ (Phase = "Initializing" /\ Phase' = "Serving") =>
             pc = "run" /\ StartupComplete /\ StartupComplete'
       /\ Responds => Phase = "Serving" /\ Phase' = "Serving"]_vars

\* C5 witness: the bank process is Serving and has answered its report.
C5_Witness ==
    /\ Phase = "Serving"
    /\ service = "bank"
    /\ Answered("hello")
    /\ resp.request.method = "GET"

\* C6: no step of a Serving process changes the classifier, the feature
\* transformer, the dataset, the cached table HTML or the accuracy score,
\* and the bank report embeds the score computed at startup.
C6_HandlersReadOnly ==
    [][pc = "serving" =>
          /\ UNCHANGED globals
          /\ (Responds /\ service = "bank" /\ resp'.endpoint = "hello") =>
                /\ resp'.body.context.a = score
                /\ score = accuracy_score(y_test, preds)]_vars

\* C6 witness: the bank report has been served by HEAD, with the score
\* in it.
C6_Witness ==
    /\ service = "bank"
    /\ Answered("hello")
    /\ resp.request.method = "HEAD"
    /\ resp.body.context.a = score

C8_Prediction ==
    Answered("is_spam") =>
        LET t == GetArg(resp.request.args, "msg")
            docs == [i \in 1..Len(df) |-> df[i].msg]
            X_new == transform(cvec, <<t>>)
        IN  /\ resp.body.mimetype = "application/json"
            /\ DOMAIN resp.body.json = {"prediction"}
            /\ Len(predict(clf, X_new)) = 1
            /\ resp.body.json.prediction = predict(clf, X_new)[1]
            /\ resp.body.json.prediction \in SpamLabels
            /\ cvec.vocabulary_ = fit_vocabulary(docs)
            /\ X = transform(cvec, docs)
            /\ clf = nb_fit(X, y, cvec.vocabulary_)
            /\ DOMAIN X_new[1] = cvec.vocabulary_

\* C8 witness: a message written in capitals has been classified spam by
\* a classifier that knows both classes.
C8_Witness ==
    /\ Answered("is_spam")
    /\ GetArg(resp.request.args, "msg") = <<"FREE">>
    /\ resp.body.json.prediction = "spam"
    /\ Len(clf.classes_) = 2

\* C9: the score of the bank report is one number in [0, 1], the
\* fraction of the held-out rows whose cross-validated prediction equals
\* the true label, for every split and every prediction vector.
C9_Score ==
    (service = "bank" /\ pc \in {"run", "serving"}) =>
        /\ score.den = Len(y_test)
        /\ score.den > 0
        /\ score.num =
              Cardinality({i \in 1..Len(y_test) : preds[i] = y_test[i]})
        /\ 0 <= score.num /\ score.num <= score.den
        /\ Answered("hello") => resp.body.context = [a |-> score]

\* C9 witness: the report embeds a score strictly between 0 and 1.
C9_Witness ==
    /\ service = "bank"
    /\ Answered("hello")
    /\ 0 < resp.body.context.a.num
    /\ resp.body.context.a.num < resp.body.context.a.den

\* The characters the template engine rewrites.
HtmlSpecial == {"&", "<", ">"}

====
